---- MODULE Spec2Model ----
(***************************************************************************)
(* InferenceCoreBuilder (op_builder/inference_core_ops.py): the            *)
(* compatibility gate, the compute-capability filter, the path prefix and  *)
(* the source / include / link-flag lists of the inference core ops.       *)
(*                                                                         *)
(* One builder lives in an environment of fixed facts (is torch            *)
(* importable, is it a ROCm build, is a CUDA device present, its major     *)
(* compute capability, the two CUDA majors) and a project directory that   *)
(* may be created and removed between calls.  Every method is one action   *)
(* that stores the outcome of the call in `last`.                          *)
(***************************************************************************)
EXTENDS Integers, Sequences, FiniteSets, TLC

VARIABLES
    facts,      \* the environment the builder queries
    dirExists,  \* os.path.isdir(<package root>/deepspeed)
    last,       \* outcome of the most recent method call
    first,      \* outcome of the first sources/include_paths/extra_ldflags call
    kept        \* the list object that first call returned, as the caller holds it

vars == <<facts, dirExists, last, first, kept>>

----------------------------------------------------------------------------
(* Bounds of the model *)

MaxGen == 9          \* largest major compute capability of the device
MaxCudaMajor == 11   \* largest CUDA major of the system / of torch's build
MaxLen == 3          \* longest requested list given to filter_ccs

(* Literals of the source *)

PascalMajor == 6     \* is_compatible: cuda_capability < 6
AmpereMajor == 8     \* is_compatible: cuda_capability >= 8
Cuda11 == 11         \* is_compatible: torch_cuda_major < 11 or sys_cuda_major < 11
FilterMinMajor == 6  \* filter_ccs: int(cc[0]) >= 6
Fp6Major == 8        \* sources: cuda_capability != 8

Gens == (PascalMajor - 1) .. MaxGen
CudaMajors == (Cuda11 - 1) .. MaxCudaMajor

Facts ==
    [torch : BOOLEAN, rocm : BOOLEAN, cuda : BOOLEAN, capability : Gens,
     sys_cuda_major : CudaMajors, torch_cuda_major : CudaMajors]

\* A requested compute capability is the list of the parts of "major.minor",
\* as strings: cc[0] of the source is cc[1] here.
CCs == { <<"3", "7">>, <<"5", "2">>, <<"6", "1">>, <<"8", "0">>, <<"10", "0">> }

\* The requested lists of the full state machine: empty or a single entry.
ShortRequests == { <<>> } \cup { <<cc>> : cc \in CCs }

RECURSIVE SeqsUpTo(_, _)
SeqsUpTo(S, n) ==
    IF n = 0 THEN { <<>> }
    ELSE LET shorter == SeqsUpTo(S, n - 1)
         IN  shorter \cup { Append(s, x) : s \in shorter, x \in S }

----------------------------------------------------------------------------
(* Names and the environment *)

\* The names bound at module level: import os; from .builder import ...; class.
ModuleGlobals == { "os", "CUDAOpBuilder", "installed_cuda_version", "InferenceCoreBuilder" }

\* A bare name in a method that does not assign it resolves in the module's
\* globals; an unbound one raises NameError.
NameBound(name) == name \in ModuleGlobals

\* `import torch` inside is_compatible: ImportError when torch is absent.
ImportTorch(f) == f.torch

is_rocm_pytorch(f) == f.rocm

cuda_is_available(f) == f.cuda

installed_cuda_version(f) == f.sys_cuda_major

\* int(torch.version.cuda.split('.')[0])
torch_cuda_major(f) == f.torch_cuda_major

\* torch.cuda.get_device_properties(0).major
device_major(f) == f.capability

\* CUDAOpBuilder.is_compatible: the base builder adds no rule of its own.
super_is_compatible == TRUE

\* os.path.isdir(self.deepspeed_src_path("deepspeed"))
isdir_deepspeed(d) == d

\* os.path.join(a, b) for a relative b
os_path_join(a, b) == a \o "/" \o b

\* int(s) for a string of decimal digits
int(s) == CHOOSE n \in 0 .. 99 : ToString(n) = s

----------------------------------------------------------------------------
(* Warnings and call outcomes *)

Warn(msg, ccs) == [msg |-> msg, ccs |-> ccs]

W_InstallTorch == Warn("Please install torch if trying to pre-compile inference kernels", <<>>)
W_Pascal == Warn("NVIDIA Inference is only supported on Pascal and newer architectures", <<>>)
W_Cuda11 == Warn("On Ampere and higher architectures please use CUDA 11+", <<>>)
W_Fp6 == Warn("FP6 quantization kernel is only supported on Ampere architectures", <<>>)
W_Filtered(pruned) == Warn("Filtered compute capabilities", pruned)

\* The outcome of a call: how it ended, what it returned, what it warned
\* about, which facts it read and whether it ran the base builder's check.
NoCall ==
    [op |-> "none", outcome |-> "none", verdict |-> FALSE, prefix |-> "",
     list |-> <<>>, retained |-> <<>>, ccs |-> <<>>, warnings |-> <<>>,
     queried |-> {}, base |-> FALSE, dir |-> FALSE, afterMutation |-> FALSE]

Raised(op, queried) ==
    [NoCall EXCEPT !.op = op, !.outcome = "raise", !.queried = queried]

----------------------------------------------------------------------------
(* is_compatible *)

\* The guard of the CUDA rules: not self.is_rocm_pytorch() and torch.cuda.is_available()
GateApplies_NoRocmCheck(f) == cuda_is_available(f)

GateApplies(f) == ~is_rocm_pytorch(f) /\ cuda_is_available(f)

\* cuda_capability < 6
TooOld(cap) == cap < PascalMajor

\* cuda_capability >= 8 and (torch_cuda_major < 11 or sys_cuda_major < 11)
NeedsCuda11_BothOld(cap, tmaj, smaj) ==
    cap >= AmpereMajor /\ (tmaj < Cuda11 /\ smaj < Cuda11)

NeedsCuda11(cap, tmaj, smaj) ==
    cap >= AmpereMajor /\ (tmaj < Cuda11 \/ smaj < Cuda11)

\* The facts the body reads after the import succeeded; `and` short-circuits.
GateQueried(f) ==
    {"torch", "rocm"}
        \cup (IF ~is_rocm_pytorch(f) THEN {"cuda_available"} ELSE {})
        \cup (IF GateApplies(f) THEN {"sys_cuda", "torch_cuda", "capability"} ELSE {})

\* Lines 29-41: the rules once torch is imported.
GateRules(f) ==
    LET applies == GateApplies(f)
        cap     == device_major(f)
        old     == applies /\ TooOld(cap)
        skew    == applies /\ NeedsCuda11(cap, torch_cuda_major(f), installed_cuda_version(f))
        cuda_okay == ~old /\ ~skew
    IN  [NoCall EXCEPT
            !.op = "is_compatible", !.outcome = "return",
            !.warnings = (IF old THEN <<W_Pascal>> ELSE <<>>)
                             \o (IF skew THEN <<W_Cuda11>> ELSE <<>>),
            !.queried = GateQueried(f),
            !.base = TRUE,
            !.verdict = (super_is_compatible /\ cuda_okay)]

\* Lines 25-27 without the `return False`: the warning, then the rules.
ImportFailed_FallThrough(f) ==
    LET r == GateRules(f)
    IN  [r EXCEPT !.warnings = <<W_InstallTorch>> \o r.warnings]

\* Lines 25-27: except ImportError: warn and return False.
ImportFailed(f) ==
    [NoCall EXCEPT
        !.op = "is_compatible", !.outcome = "return",
        !.warnings = <<W_InstallTorch>>,
        !.queried = {"torch"},
        !.base = FALSE,
        !.verdict = FALSE]

is_compatible(f) ==
    IF ~ImportTorch(f) THEN ImportFailed(f) ELSE GateRules(f)

----------------------------------------------------------------------------
(* filter_ccs *)

Major(cc) == int(cc[1])

Retain_Strict(cc) == Major(cc) > FilterMinMajor

\* int(cc[0]) >= 6
Retain(cc) == Major(cc) >= FilterMinMajor

\* The loop of lines 46-50, over the entries in order: <<ccs_retained, ccs_pruned>>.
RECURSIVE FilterLoop(_, _, _)
FilterLoop(ccs, ccs_retained, ccs_pruned) ==
    IF ccs = <<>> THEN <<ccs_retained, ccs_pruned>>
    ELSE IF Retain(Head(ccs))
         THEN FilterLoop(Tail(ccs), Append(ccs_retained, Head(ccs)), ccs_pruned)
         ELSE FilterLoop(Tail(ccs), ccs_retained, Append(ccs_pruned, Head(ccs)))

FilterWarnings_PerEntry(ccs_pruned) ==
    [i \in 1 .. Len(ccs_pruned) |-> W_Filtered(<<ccs_pruned[i]>>)]

\* Lines 51-52: one warning that carries the whole pruned list.
FilterWarnings(ccs_pruned) ==
    IF Len(ccs_pruned) > 0 THEN <<W_Filtered(ccs_pruned)>> ELSE <<>>

filter_ccs(ccs) ==
    LET parts == FilterLoop(ccs, <<>>, <<>>)
    IN  [NoCall EXCEPT
            !.op = "filter_ccs", !.outcome = "return",
            !.ccs = ccs,
            !.retained = parts[1],
            !.warnings = FilterWarnings(parts[2])]

----------------------------------------------------------------------------
(* get_prefix, sources, extra_ldflags, include_paths *)

\* A prefix remembered from the previous call that resolved one.
get_prefix_Cached(d) ==
    IF last.prefix # "" THEN last.prefix
    ELSE IF isdir_deepspeed(d) THEN "deepspeed" ELSE ".."

\* Lines 55-57.
get_prefix(d) == IF isdir_deepspeed(d) THEN "deepspeed" ELSE ".."

\* Lines 60-70.
BaselineSources ==
    << "inference/v2/kernels/core_ops/core_ops.cpp",
       "inference/v2/kernels/core_ops/bias_activations/bias_activation.cpp",
       "inference/v2/kernels/core_ops/bias_activations/bias_activation_cuda.cu",
       "inference/v2/kernels/core_ops/cuda_layer_norm/layer_norm.cpp",
       "inference/v2/kernels/core_ops/cuda_layer_norm/layer_norm_cuda.cu",
       "inference/v2/kernels/core_ops/cuda_rms_norm/rms_norm.cpp",
       "inference/v2/kernels/core_ops/cuda_rms_norm/rms_norm_cuda.cu",
       "inference/v2/kernels/core_ops/gated_activations/gated_activation_kernels.cpp",
       "inference/v2/kernels/core_ops/gated_activations/gated_activation_kernels_cuda.cu" >>

\* Lines 78-79.
Fp6Sources ==
    << "inference/v2/kernels/core_ops/cuda_linear/fp6_linear.cu",
       "inference/v2/kernels/core_ops/cuda_linear/cuda_linear_kernels.cpp" >>

\* Lines 89-97.
IncludeDirs ==
    << "inference/v2/kernels/core_ops/bias_activations",
       "inference/v2/kernels/core_ops/blas_kernels",
       "inference/v2/kernels/core_ops/cuda_layer_norm",
       "inference/v2/kernels/core_ops/cuda_rms_norm",
       "inference/v2/kernels/core_ops/gated_activations",
       "inference/v2/kernels/core_ops/cuda_linear",
       "inference/v2/kernels/includes" >>

\* [os.path.join(prefix, src) for src in sources]: a new list
Prefixed(prefix, rel) == [i \in 1 .. Len(rel) |-> os_path_join(prefix, rel[i])]

\* Line 73, left operand of `and`: on a ROCm build the right operand, and with
\* it the name torch, is never evaluated.
SkipsArchSources_Never(f) == FALSE

SkipsArchSources(f) == is_rocm_pytorch(f)

\* Lines 74-79, reached only once torch.cuda.is_available() was evaluated.
ArchSources(f) ==
    IF ~cuda_is_available(f) THEN [extra |-> <<>>, warnings |-> <<>>]
    ELSE IF device_major(f) # Fp6Major
         THEN [extra |-> <<>>, warnings |-> <<W_Fp6>>]
         ELSE [extra |-> Fp6Sources, warnings |-> <<>>]

SourcesQueried(f) ==
    IF SkipsArchSources(f) THEN {"rocm", "isdir"}
    ELSE IF ~cuda_is_available(f) THEN {"rocm", "cuda_available", "isdir"}
    ELSE {"rocm", "cuda_available", "capability", "isdir"}

\* Lines 59-83.  sources() has no `import torch` of its own and the module
\* binds no such name, so evaluating torch.cuda.is_available() raises NameError.
sources(f, d) ==
    IF SkipsArchSources(f)
    THEN [NoCall EXCEPT
            !.op = "sources", !.outcome = "return",
            !.prefix = get_prefix(d),
            !.list = Prefixed(get_prefix(d), BaselineSources),
            !.queried = SourcesQueried(f)]
    ELSE IF ~NameBound("torch")
    THEN Raised("sources", {"rocm"})
    ELSE LET arch == ArchSources(f)
         IN  [NoCall EXCEPT
                !.op = "sources", !.outcome = "return",
                !.prefix = get_prefix(d),
                !.list = Prefixed(get_prefix(d), BaselineSources \o arch.extra),
                !.warnings = arch.warnings,
                !.queried = SourcesQueried(f)]

\* A class-level list handed out by reference: what the caller did to the
\* list it holds shows in the next call.
extra_ldflags_Shared == IF first.op = "extra_ldflags" THEN kept ELSE <<>>

\* Lines 85-86: return []
extra_ldflags == <<>>

\* Lines 88-102.
include_paths(d) ==
    [NoCall EXCEPT
        !.op = "include_paths", !.outcome = "return",
        !.prefix = get_prefix(d),
        !.list = Prefixed(get_prefix(d), IncludeDirs),
        !.queried = {"isdir"}]

----------------------------------------------------------------------------
(* The state machine *)

Init ==
    /\ facts \in Facts
    /\ dirExists \in BOOLEAN
    /\ last = NoCall
    /\ first = NoCall
    /\ kept = <<>>

\* Whether the caller has changed the list the first resolution call returned.
Mutated == first.outcome = "return" /\ kept # first.list

\* The call's outcome, stamped with the directory state it ran in and with
\* whether the caller had by then changed a list returned earlier.
Stamp(r) == [r EXCEPT !.dir = dirExists, !.afterMutation = Mutated]

\* The first sources / include_paths / extra_ldflags call is remembered, and
\* the caller keeps the list it returned.
RememberFirst(r) ==
    IF first.op = "none"
    THEN first' = r /\ kept' = r.list
    ELSE UNCHANGED <<first, kept>>

CallIsCompatible ==
    /\ last' = is_compatible(facts)
    /\ UNCHANGED <<facts, dirExists, first, kept>>

CallFilterCcs(ccs) ==
    /\ last' = filter_ccs(ccs)
    /\ UNCHANGED <<facts, dirExists, first, kept>>

CallGetPrefix ==
    /\ last' = Stamp([NoCall EXCEPT !.op = "get_prefix", !.outcome = "return",
                                    !.prefix = get_prefix(dirExists),
                                    !.queried = {"isdir"}])
    /\ UNCHANGED <<facts, dirExists, first, kept>>

CallSources ==
    /\ last' = Stamp(sources(facts, dirExists))
    /\ RememberFirst(last')
    /\ UNCHANGED <<facts, dirExists>>

CallIncludePaths ==
    /\ last' = Stamp(include_paths(dirExists))
    /\ RememberFirst(last')
    /\ UNCHANGED <<facts, dirExists>>

CallExtraLdflags ==
    /\ last' = Stamp([NoCall EXCEPT !.op = "extra_ldflags", !.outcome = "return",
                                    !.list = extra_ldflags])
    /\ RememberFirst(last')
    /\ UNCHANGED <<facts, dirExists>>

\* The caller appends to the list it was handed.
MutateReturned ==
    /\ first.outcome = "return"
    /\ kept = first.list
    /\ kept' = Append(kept, "-lcaller")
    /\ UNCHANGED <<facts, dirExists, last, first>>

MakeDir ==
    /\ ~dirExists
    /\ dirExists' = TRUE
    /\ UNCHANGED <<facts, last, first, kept>>

RemoveDir ==
    /\ dirExists
    /\ dirExists' = FALSE
    /\ UNCHANGED <<facts, last, first, kept>>

Next ==
    \/ CallIsCompatible
    \/ \E ccs \in ShortRequests : CallFilterCcs(ccs)
    \/ CallGetPrefix
    \/ CallSources
    \/ CallIncludePaths
    \/ CallExtraLdflags
    \/ MutateReturned
    \/ MakeDir
    \/ RemoveDir

Spec == Init /\ [][Next]_vars

\* filter_ccs alone, over every requested list of up to MaxLen entries; it
\* reads neither the facts nor the directory, so one environment is enough.
InitFilter ==
    /\ facts = [torch |-> TRUE, rocm |-> FALSE, cuda |-> TRUE, capability |-> Fp6Major,
                sys_cuda_major |-> Cuda11, torch_cuda_major |-> Cuda11]
    /\ dirExists = TRUE
    /\ last = NoCall
    /\ first = NoCall
    /\ kept = <<>>

NextFilter == \E ccs \in SeqsUpTo(CCs, MaxLen) : CallFilterCcs(ccs)

SpecFilter == InitFilter /\ [][NextFilter]_vars

----------------------------------------------------------------------------
(* Vocabulary of the properties *)

IsMember(x, seq) == \E i \in 1 .. Len(seq) : seq[i] = x

NoDuplicates(seq) == \A i, j \in 1 .. Len(seq) : i # j => seq[i] # seq[j]

\* The generation of a requested capability, read off its major part.
Generation(cc) ==
    CASE cc[1] = "3" -> 3
      [] cc[1] = "5" -> 5
      [] cc[1] = "6" -> 6
      [] cc[1] = "8" -> 8
      [] cc[1] = "10" -> 10

Supported(cc) == Generation(cc) >= 6

Unsupported(cc) == Generation(cc) < 6

\* The pruned list as the caller can observe it: the list the warning carries.
PrunedOf(r) == IF r.warnings = <<>> THEN <<>> ELSE r.warnings[1].ccs

\* input is retained and pruned merged by original index.
RECURSIVE MergesTo(_, _, _)
MergesTo(input, retained, pruned) ==
    IF input = <<>> THEN retained = <<>> /\ pruned = <<>>
    ELSE \/ /\ Supported(Head(input))
            /\ retained # <<>>
            /\ Head(retained) = Head(input)
            /\ MergesTo(Tail(input), Tail(retained), pruned)
         \/ /\ Unsupported(Head(input))
            /\ pruned # <<>>
            /\ Head(pruned) = Head(input)
            /\ MergesTo(Tail(input), retained, Tail(pruned))

ExpectedPrefix(dir) == IF dir THEN "deepspeed" ELSE ".."

WithPrefix(prefix, rel) == [i \in 1 .. Len(rel) |-> prefix \o "/" \o rel[i]]

ResolutionOps == {"sources", "include_paths", "extra_ldflags"}

----------------------------------------------------------------------------
(* Properties *)

\* C1: on the primary (non-ROCm) toolchain sources() returns the nine
\* baseline files in order, followed by fp6_linear.cu and
\* cuda_linear_kernels.cpp iff a device is present with generation exactly 8,
\* without duplicates, and warns once iff a device is present with another
\* generation.  (The code raises NameError there instead.)
C1_SourcesOnPrimary ==
    (last.op = "sources" /\ ~facts.rocm) =>
        LET gen8 == facts.cuda /\ facts.capability = 8
        IN  /\ last.outcome = "return"
            /\ last.list = WithPrefix(ExpectedPrefix(last.dir),
                                      BaselineSources \o (IF gen8 THEN Fp6Sources ELSE <<>>))
            /\ NoDuplicates(last.list)
            /\ Len(last.warnings) = (IF facts.cuda /\ facts.capability # 8 THEN 1 ELSE 0)

\* C2: with torch present, the primary toolchain and a device of generation
\* g, is_compatible() returns False with the Pascal warning for g < 6, returns
\* False with the CUDA 11+ warning for g >= 8 when the system's or torch's
\* CUDA major is below 11, and otherwise neither warns nor lowers the
\* base builder's verdict.
C2_GateRules ==
    (last.op = "is_compatible" /\ facts.torch /\ ~facts.rocm /\ facts.cuda) =>
        LET g    == facts.capability
            skew == facts.sys_cuda_major < 11 \/ facts.torch_cuda_major < 11
        IN  /\ last.outcome = "return"
            /\ g < 6 => (~last.verdict /\ IsMember(W_Pascal, last.warnings))
            /\ (g >= 8 /\ skew) => (~last.verdict /\ IsMember(W_Cuda11, last.warnings))
            /\ (g \in 6 .. 7 \/ (g >= 8 /\ ~skew)) =>
                   (last.warnings = <<>> /\ last.verdict = super_is_compatible)

\* A generation-8 device where only torch's CUDA major is below 11.
C2_Witness ==
    /\ last.op = "is_compatible"
    /\ facts.torch /\ ~facts.rocm /\ facts.cuda
    /\ facts.capability = 8
    /\ facts.sys_cuda_major = 11 /\ facts.torch_cuda_major = 10
    /\ ~last.verdict

\* C3: with torch absent is_compatible() returns False whatever the other
\* facts are, emits the install warning and nothing else, reads no device or
\* toolchain fact and does not run the base builder's check.
C3_NoRuntime ==
    (last.op = "is_compatible" /\ ~facts.torch) =>
        /\ last.outcome = "return"
        /\ last.verdict = FALSE
        /\ last.warnings = <<W_InstallTorch>>
        /\ last.queried = {"torch"}
        /\ ~last.base

\* torch absent while a too-old device sits on the primary toolchain.
C3_Witness ==
    /\ last.op = "is_compatible"
    /\ ~facts.torch /\ ~facts.rocm /\ facts.cuda /\ facts.capability = 5
    /\ ~last.verdict

\* C4: filter_ccs partitions the requested list: retained is the
\* subsequence of generation >= 6, pruned the subsequence of generation < 6,
\* both in input order, disjoint, merging back to the input; and the
\* threshold is the gate's: a generation is pruned iff the gate calls it too old.
C4_Partition ==
    /\ last.op = "filter_ccs" =>
        LET pruned == PrunedOf(last)
        IN  /\ last.outcome = "return"
            /\ last.retained = SelectSeq(last.ccs, Supported)
            /\ pruned = SelectSeq(last.ccs, Unsupported)
            /\ \A i \in 1 .. Len(last.retained), j \in 1 .. Len(pruned) :
                   last.retained[i] # pruned[j]
            /\ Len(last.retained) + Len(pruned) = Len(last.ccs)
            /\ MergesTo(last.ccs, last.retained, pruned)
    /\ \A g \in 0 .. (MaxGen + 1) : TooOld(g) <=> ~Retain(<<ToString(g), "0">>)

\* Pruned and retained entries interleaved.
C4_Witness ==
    /\ last.op = "filter_ccs"
    /\ last.ccs = << <<"5", "2">>, <<"8", "0">>, <<"3", "7">> >>
    /\ last.retained = << <<"8", "0">> >>

\* C5: every get_prefix / sources / include_paths call that returns resolved
\* its prefix from the directory as it was at that call: "deepspeed" if the
\* directory existed, ".." if not, and every path it returned is that prefix
\* joined with a relative path.
C5_PrefixPerCall ==
    (last.op \in {"get_prefix", "sources", "include_paths"} /\ last.outcome = "return") =>
        /\ last.prefix = ExpectedPrefix(last.dir)
        /\ last.op # "get_prefix" =>
               \E rel \in {BaselineSources, BaselineSources \o Fp6Sources, IncludeDirs} :
                   last.list = WithPrefix(ExpectedPrefix(last.dir), rel)

\* include_paths with the directory present, after a sources call without it.
C5_Witness ==
    /\ last.op = "include_paths" /\ last.outcome = "return" /\ last.dir
    /\ first.op = "sources" /\ first.outcome = "return" /\ ~first.dir

\* C6: is_compatible, filter_ccs, sources and include_paths each complete
\* with a return value and never raise, for every combination of facts.
C6_NeverRaises ==
    last.op \in {"is_compatible", "filter_ccs", "sources", "include_paths"} =>
        last.outcome = "return"

\* C7: with torch present and either a ROCm build or no device, is_compatible
\* emits neither the Pascal nor the CUDA 11+ warning and its verdict is true.
C7_RulesInapplicable ==
    (last.op = "is_compatible" /\ facts.torch /\ (facts.rocm \/ ~facts.cuda)) =>
        /\ last.outcome = "return"
        /\ ~IsMember(W_Pascal, last.warnings)
        /\ ~IsMember(W_Cuda11, last.warnings)
        /\ last.verdict = TRUE

\* A ROCm build with a device the CUDA rules would call too old.
C7_Witness ==
    /\ last.op = "is_compatible"
    /\ facts.torch /\ facts.rocm /\ facts.cuda /\ facts.capability = 5
    /\ last.verdict

C9_OneWarning ==
    last.op = "filter_ccs" =>
        LET pruned == SelectSeq(last.ccs, Unsupported)
        IN  IF pruned # <<>>
            THEN last.warnings = << [msg |-> "Filtered compute capabilities", ccs |-> pruned] >>
            ELSE last.warnings = <<>>

\* Two pruned entries around a retained one: a single warning with both.
C9_Witness ==
    /\ last.op = "filter_ccs"
    /\ last.ccs = << <<"3", "7">>, <<"6", "1">>, <<"5", "2">> >>
    /\ Len(last.warnings) = 1
    /\ last.warnings[1].ccs = << <<"3", "7">>, <<"5", "2">> >>

====
